---- MODULE Spec2Model ----
(***************************************************************************)
(* modularflow_config.py: the configuration facade ManosabaAIConfig, its   *)
(* install() operation and the command-line entry point.                   *)
(*                                                                         *)
(* The module-level names FRONTEND_PORT, BACKEND_PORT and WEBSOCKET_PORT   *)
(* are Python globals and are modelled as variables; the getters read them *)
(* at call time.  Strings are TLA+ strings, built with \o as the f-strings *)
(* build them; integers are rendered by str.  The non-ASCII glyphs of the  *)
(* printed messages are transliterated.                                    *)
(***************************************************************************)
EXTENDS Integers, Sequences, FiniteSets, TLC

VARIABLES
    FRONTEND_PORT,   \* module global, line 11
    BACKEND_PORT,    \* module global, line 12
    WEBSOCKET_PORT,  \* module global, line 13
    mode,            \* "main": run as a script; "import": a client calls the facade
    args,            \* the flags argparse found on the command line
    pc,              \* control location of the interpreter
    child,           \* the install command's child process: "none", "running", "exited"
    returncode,      \* exit status of the child once it has exited
    stdout,          \* the lines printed so far by this process
    dumped,          \* the structure handed to json.dumps by --get-config, <<>> before
    ret,             \* value returned by the last completed install(), <<>> before
    exc,             \* exception that left install() uncaught, "" when none
    exit_code,       \* exit code of the script process, <<>> while it runs
    results,         \* last value returned by each getter to the client, <<>> before
    calls,           \* number of install() calls started by the client
    nspawn,          \* child processes launched by the current install() call
    op,              \* the facade method the client called last, "" before
    again,           \* TRUE when that call was of a getter that had returned before
    runs,            \* number of times the script has been invoked
    dumps,           \* every structure dumped by --get-config over all invocations
    old              \* the ports and the five views as they were before the last edit of the ports

vars == <<FRONTEND_PORT, BACKEND_PORT, WEBSOCKET_PORT, mode, args, pc, child,
          returncode, stdout, dumped, ret, exc, exit_code, results, calls,
          nspawn, op, again, runs, dumps, old>>

ports == <<FRONTEND_PORT, BACKEND_PORT, WEBSOCKET_PORT>>

-----------------------------------------------------------------------------
(* Bounds *)

MaxCalls == 2        \* install() calls a client makes
MaxRuns == 2         \* invocations of the script
MaxStatus == 2       \* largest exit status the child returns

ExitStatuses == (-1) .. MaxStatus     \* negative: killed by a signal
PortSet == {80, 3002, 8000}

(* Program constants *)

DefaultFrontendPort == 3002
DefaultBackendPort == 8000
DefaultWebsocketPort == 8000

PROJECT_NAME == "manosaba_ai"
DISPLAY_NAME == "Manosaba AI"
PROJECT_TYPE == "nextjs"
INSTALL_COMMAND == "pnpm install"
DEV_COMMAND == "pnpm run dev"
BUILD_COMMAND == "pnpm run build"

Flags == {"get_config", "install", "info"}
Getters == {"get_project_info", "get_runtime_config", "get_dependencies",
            "get_api_config", "get_env_config"}

-----------------------------------------------------------------------------
(* Integer formatting of an f-string replacement field: str(int) *)

Digit(d) ==
    CASE d = 0 -> "0" [] d = 1 -> "1" [] d = 2 -> "2" [] d = 3 -> "3"
      [] d = 4 -> "4" [] d = 5 -> "5" [] d = 6 -> "6" [] d = 7 -> "7"
      [] d = 8 -> "8" [] d = 9 -> "9"

RECURSIVE str(_)
str(n) ==
    IF n < 0 THEN "-" \o str(-n)
    ELSE IF n < 10 THEN Digit(n)
    ELSE str(n \div 10) \o Digit(n % 10)

-----------------------------------------------------------------------------
(* The pure getters of ManosabaAIConfig *)

get_project_info ==
    [name |-> PROJECT_NAME,
     display_name |-> DISPLAY_NAME,
     version |-> "1.0.0",
     description |-> "Next.js AI assistant application",
     type |-> PROJECT_TYPE,
     author |-> "Manosaba Team",
     license |-> "MIT"]

\* variant: the reported port drifts with the number of install() calls made
get_runtime_config_Stateful ==
    [port |-> FRONTEND_PORT + calls,
     install_command |-> INSTALL_COMMAND,
     dev_command |-> DEV_COMMAND,
     build_command |-> BUILD_COMMAND,
     test_command |-> "pnpm test",
     lint_command |-> "pnpm run lint"]

get_runtime_config ==
    [port |-> FRONTEND_PORT,
     install_command |-> INSTALL_COMMAND,
     dev_command |-> DEV_COMMAND,
     build_command |-> BUILD_COMMAND,
     test_command |-> "pnpm test",
     lint_command |-> "pnpm run lint"]

get_dependencies ==
    [required_tools |-> <<"node", "pnpm">>,
     optional_tools |-> <<"yarn", "npm">>,
     node_version |-> ">=18.0.0",
     pnpm_version |-> ">=8.0.0"]

\* variant: the endpoint is interpolated from the wrong port
get_api_config_FrontendPort ==
    [api_endpoint |-> "http://localhost:" \o str(FRONTEND_PORT) \o "/api/v1",
     websocket_url |-> "ws://localhost:" \o str(WEBSOCKET_PORT) \o "/ws",
     cors_origins |-> <<"http://localhost:" \o str(FRONTEND_PORT)>>]

get_api_config ==
    [api_endpoint |-> "http://localhost:" \o str(BACKEND_PORT) \o "/api/v1",
     websocket_url |-> "ws://localhost:" \o str(WEBSOCKET_PORT) \o "/ws",
     cors_origins |-> <<"http://localhost:" \o str(FRONTEND_PORT)>>]

\* variant: the production profile is derived from the local port as well
get_env_config_ProductionFromPorts ==
    [development |->
        [NODE_ENV |-> "development",
         NEXT_PUBLIC_API_URL |-> "http://localhost:" \o str(BACKEND_PORT),
         NEXT_PUBLIC_WS_URL |-> "ws://localhost:" \o str(WEBSOCKET_PORT) \o "/ws"],
     production |->
        [NODE_ENV |-> "production",
         NEXT_PUBLIC_API_URL |-> "https://api.manosaba.com:" \o str(BACKEND_PORT),
         NEXT_PUBLIC_WS_URL |-> "wss://api.manosaba.com/ws"]]

get_env_config ==
    [development |->
        [NODE_ENV |-> "development",
         NEXT_PUBLIC_API_URL |-> "http://localhost:" \o str(BACKEND_PORT),
         NEXT_PUBLIC_WS_URL |-> "ws://localhost:" \o str(WEBSOCKET_PORT) \o "/ws"],
     production |->
        [NODE_ENV |-> "production",
         NEXT_PUBLIC_API_URL |-> "https://api.manosaba.com",
         NEXT_PUBLIC_WS_URL |-> "wss://api.manosaba.com/ws"]]

NoResults ==
    [get_project_info |-> <<>>, get_runtime_config |-> <<>>,
     get_dependencies |-> <<>>, get_api_config |-> <<>>,
     get_env_config |-> <<>>]

-----------------------------------------------------------------------------
(* Initial states *)

InitProcess ==
    /\ pc = IF mode = "main" THEN "main" ELSE "idle"
    /\ child = "none"
    /\ returncode = 0
    /\ stdout = <<>>
    /\ dumped = <<>>
    /\ ret = <<>>
    /\ exc = ""
    /\ exit_code = <<>>
    /\ results = NoResults
    /\ calls = 0
    /\ nspawn = 0
    /\ op = ""
    /\ again = FALSE

Init ==
    /\ FRONTEND_PORT = DefaultFrontendPort
    /\ BACKEND_PORT = DefaultBackendPort
    /\ WEBSOCKET_PORT = DefaultWebsocketPort
    /\ mode \in {"main", "import"}
    /\ args \in IF mode = "main" THEN SUBSET Flags ELSE {{}}
    /\ InitProcess
    /\ runs = IF mode = "main" THEN 1 ELSE 0
    /\ dumps = {}
    /\ old = <<>>

-----------------------------------------------------------------------------
(* The facade called by a client that imported the module *)

Call_get_project_info ==
    /\ mode = "import" /\ pc = "idle"
    /\ results' = [results EXCEPT !.get_project_info = <<get_project_info>>]
    /\ op' = "get_project_info"
    /\ again' = (results.get_project_info # <<>>)
    /\ UNCHANGED <<FRONTEND_PORT, BACKEND_PORT, WEBSOCKET_PORT, mode, args, pc,
                   child, returncode, stdout, dumped, ret, exc, exit_code,
                   calls, nspawn, runs, dumps, old>>

Call_get_runtime_config ==
    /\ mode = "import" /\ pc = "idle"
    /\ results' = [results EXCEPT !.get_runtime_config = <<get_runtime_config>>]
    /\ op' = "get_runtime_config"
    /\ again' = (results.get_runtime_config # <<>>)
    /\ UNCHANGED <<FRONTEND_PORT, BACKEND_PORT, WEBSOCKET_PORT, mode, args, pc,
                   child, returncode, stdout, dumped, ret, exc, exit_code,
                   calls, nspawn, runs, dumps, old>>

\* variant: the getter probes the required tools by launching one
Call_get_dependencies_Probing ==
    /\ mode = "import" /\ pc = "idle"
    /\ results' = [results EXCEPT !.get_dependencies = <<get_dependencies>>]
    /\ op' = "get_dependencies"
    /\ again' = (results.get_dependencies # <<>>)
    /\ child' = "running"
    /\ nspawn' = nspawn + 1
    /\ UNCHANGED <<FRONTEND_PORT, BACKEND_PORT, WEBSOCKET_PORT, mode, args, pc,
                   returncode, stdout, dumped, ret, exc, exit_code,
                   calls, runs, dumps, old>>

Call_get_dependencies ==
    /\ mode = "import" /\ pc = "idle"
    /\ results' = [results EXCEPT !.get_dependencies = <<get_dependencies>>]
    /\ op' = "get_dependencies"
    /\ again' = (results.get_dependencies # <<>>)
    /\ UNCHANGED <<FRONTEND_PORT, BACKEND_PORT, WEBSOCKET_PORT, mode, args, pc,
                   child, returncode, stdout, dumped, ret, exc, exit_code,
                   calls, nspawn, runs, dumps, old>>

Call_get_api_config ==
    /\ mode = "import" /\ pc = "idle"
    /\ results' = [results EXCEPT !.get_api_config = <<get_api_config>>]
    /\ op' = "get_api_config"
    /\ again' = (results.get_api_config # <<>>)
    /\ UNCHANGED <<FRONTEND_PORT, BACKEND_PORT, WEBSOCKET_PORT, mode, args, pc,
                   child, returncode, stdout, dumped, ret, exc, exit_code,
                   calls, nspawn, runs, dumps, old>>

Call_get_env_config ==
    /\ mode = "import" /\ pc = "idle"
    /\ results' = [results EXCEPT !.get_env_config = <<get_env_config>>]
    /\ op' = "get_env_config"
    /\ again' = (results.get_env_config # <<>>)
    /\ UNCHANGED <<FRONTEND_PORT, BACKEND_PORT, WEBSOCKET_PORT, mode, args, pc,
                   child, returncode, stdout, dumped, ret, exc, exit_code,
                   calls, nspawn, runs, dumps, old>>

-----------------------------------------------------------------------------
(* install() *)

InstallArgv == <<"pnpm", "install">>      \* INSTALL_COMMAND.split()

BannerLine == "[rocket] install " \o DISPLAY_NAME \o "..."
SuccessLine == "[ok] install done"

\* str(e) of subprocess.CalledProcessError for the argv and return code
CalledProcessErrorText(rc) ==
    IF rc < 0
    THEN "Command '['" \o InstallArgv[1] \o "', '" \o InstallArgv[2]
            \o "']' died with signal " \o str(-rc) \o "."
    ELSE "Command '['" \o InstallArgv[1] \o "', '" \o InstallArgv[2]
            \o "']' returned non-zero exit status " \o str(rc) \o "."

FailureLine(rc) == "[x] install failed: " \o CalledProcessErrorText(rc)

\* check=True: subprocess.run raises CalledProcessError for this return code
RaisesCalledProcessError(rc) == rc # 0

\* where control goes when install() returns or lets an exception out
ReturnPc == IF mode = "main" THEN "main_end" ELSE "idle"

\* entry of install(): the banner is printed, nothing is launched yet
InstallEnter ==
    /\ pc' = "install_run"
    /\ stdout' = Append(stdout, BannerLine)
    /\ ret' = <<>>
    /\ child' = "none"
    /\ nspawn' = 0
    /\ exc' = ""
    /\ UNCHANGED <<FRONTEND_PORT, BACKEND_PORT, WEBSOCKET_PORT, mode, args,
                   returncode, dumped, exit_code, results, runs, dumps, old>>

Call_install ==
    /\ mode = "import" /\ pc = "idle"
    /\ calls < MaxCalls
    /\ calls' = calls + 1
    /\ op' = "install"
    /\ again' = FALSE
    /\ InstallEnter

\* subprocess.run launches the child and blocks in wait()
InstallSpawn ==
    /\ pc = "install_run"
    /\ pc' = "install_wait"
    /\ child' = "running"
    /\ nspawn' = nspawn + 1
    /\ UNCHANGED <<FRONTEND_PORT, BACKEND_PORT, WEBSOCKET_PORT, mode, args,
                   returncode, stdout, dumped, ret, exc, exit_code, results,
                   calls, op, again, runs, dumps, old>>

\* subprocess.run cannot launch the executable: Popen raises FileNotFoundError,
\* which `except subprocess.CalledProcessError` does not match
InstallSpawnError ==
    /\ pc = "install_run"
    /\ exc' = "FileNotFoundError"
    /\ IF mode = "main"
       THEN pc' = "exited" /\ exit_code' = <<1>>
       ELSE pc' = "idle" /\ exit_code' = exit_code
    /\ UNCHANGED <<FRONTEND_PORT, BACKEND_PORT, WEBSOCKET_PORT, mode, args,
                   child, returncode, stdout, dumped, ret, results, calls,
                   nspawn, op, again, runs, dumps, old>>

\* the child process terminates on its own with some status
ChildExit(s) ==
    /\ child = "running"
    /\ child' = "exited"
    /\ returncode' = s
    /\ UNCHANGED <<FRONTEND_PORT, BACKEND_PORT, WEBSOCKET_PORT, mode, args, pc,
                   stdout, dumped, ret, exc, exit_code, results, calls,
                   nspawn, op, again, runs, dumps, old>>

\* variant: the child is launched without waiting for it
InstallSuccess_NoWait ==
    /\ pc = "install_wait"
    /\ ~RaisesCalledProcessError(returncode)
    /\ stdout' = Append(stdout, SuccessLine)
    /\ ret' = <<TRUE>>
    /\ pc' = ReturnPc
    /\ UNCHANGED <<FRONTEND_PORT, BACKEND_PORT, WEBSOCKET_PORT, mode, args,
                   child, returncode, dumped, exc, exit_code, results, calls,
                   nspawn, op, again, runs, dumps, old>>

\* wait() returned and the return code passes check=True
InstallSuccess ==
    /\ pc = "install_wait" /\ child = "exited"
    /\ ~RaisesCalledProcessError(returncode)
    /\ stdout' = Append(stdout, SuccessLine)
    /\ ret' = <<TRUE>>
    /\ pc' = ReturnPc
    /\ UNCHANGED <<FRONTEND_PORT, BACKEND_PORT, WEBSOCKET_PORT, mode, args,
                   child, returncode, dumped, exc, exit_code, results, calls,
                   nspawn, op, again, runs, dumps, old>>

\* variant: the handler reports the failure and still returns True
InstallFailure_ReturnsTrue ==
    /\ pc = "install_wait" /\ child = "exited"
    /\ RaisesCalledProcessError(returncode)
    /\ stdout' = Append(stdout, FailureLine(returncode))
    /\ ret' = <<TRUE>>
    /\ pc' = ReturnPc
    /\ UNCHANGED <<FRONTEND_PORT, BACKEND_PORT, WEBSOCKET_PORT, mode, args,
                   child, returncode, dumped, exc, exit_code, results, calls,
                   nspawn, op, again, runs, dumps, old>>

\* variant: the handler reports the failure and launches the command again
InstallFailure_Retries ==
    /\ pc = "install_wait" /\ child = "exited"
    /\ RaisesCalledProcessError(returncode)
    /\ stdout' = Append(stdout, FailureLine(returncode))
    /\ pc' = "install_run"
    /\ UNCHANGED <<FRONTEND_PORT, BACKEND_PORT, WEBSOCKET_PORT, mode, args,
                   child, returncode, dumped, ret, exc, exit_code, results,
                   calls, nspawn, op, again, runs, dumps, old>>

\* wait() returned, check=True raised CalledProcessError, the handler ran
InstallFailure ==
    /\ pc = "install_wait" /\ child = "exited"
    /\ RaisesCalledProcessError(returncode)
    /\ stdout' = Append(stdout, FailureLine(returncode))
    /\ ret' = <<FALSE>>
    /\ pc' = ReturnPc
    /\ UNCHANGED <<FRONTEND_PORT, BACKEND_PORT, WEBSOCKET_PORT, mode, args,
                   child, returncode, dumped, exc, exit_code, results, calls,
                   nspawn, op, again, runs, dumps, old>>

-----------------------------------------------------------------------------
(* The command-line entry point *)

\* variant: the --install branch is tested first
Dispatch_InstallFirst(a) ==
    IF "install" \in a THEN "install"
    ELSE IF "get_config" \in a THEN "get_config"
    ELSE IF "info" \in a THEN "info"
    ELSE "help"

\* the if / elif / elif / else chain over the parsed flags
Dispatch(a) ==
    IF "get_config" \in a THEN "get_config"
    ELSE IF "install" \in a THEN "install"
    ELSE IF "info" \in a THEN "info"
    ELSE "help"

JsonLine == "<json.dumps(config)>"
UsageLine == "usage: modularflow_config.py [-h] [--get-config] [--install] [--info]"

AssembledConfig ==
    [project |-> get_project_info,
     runtime |-> get_runtime_config,
     dependencies |-> get_dependencies,
     api |-> get_api_config,
     environment |-> get_env_config]

InfoLines ==
    LET info == get_project_info
    IN  <<"project: " \o info.display_name \o " (" \o info.name \o ")",
          "type: " \o info.type,
          "port: " \o str(FRONTEND_PORT)>>

MainGetConfig ==
    /\ mode = "main" /\ pc = "main"
    /\ Dispatch(args) = "get_config"
    /\ dumped' = <<AssembledConfig>>
    /\ dumps' = dumps \cup {AssembledConfig}
    /\ stdout' = Append(stdout, JsonLine)
    /\ pc' = "main_end"
    /\ UNCHANGED <<FRONTEND_PORT, BACKEND_PORT, WEBSOCKET_PORT, mode, args,
                   child, returncode, ret, exc, exit_code, results, calls,
                   nspawn, op, again, runs, old>>

MainInstall ==
    /\ mode = "main" /\ pc = "main"
    /\ Dispatch(args) = "install"
    /\ calls' = calls + 1
    /\ UNCHANGED <<op, again>>
    /\ InstallEnter

MainInfo ==
    /\ mode = "main" /\ pc = "main"
    /\ Dispatch(args) = "info"
    /\ stdout' = stdout \o InfoLines
    /\ pc' = "main_end"
    /\ UNCHANGED <<FRONTEND_PORT, BACKEND_PORT, WEBSOCKET_PORT, mode, args,
                   child, returncode, dumped, ret, exc, exit_code, results,
                   calls, nspawn, op, again, runs, dumps, old>>

MainHelp ==
    /\ mode = "main" /\ pc = "main"
    /\ Dispatch(args) = "help"
    /\ stdout' = Append(stdout, UsageLine)
    /\ pc' = "main_end"
    /\ UNCHANGED <<FRONTEND_PORT, BACKEND_PORT, WEBSOCKET_PORT, mode, args,
                   child, returncode, dumped, ret, exc, exit_code, results,
                   calls, nspawn, op, again, runs, dumps, old>>

\* the script falls off its end: the interpreter exits with code 0
MainExit ==
    /\ mode = "main" /\ pc = "main_end"
    /\ pc' = "exited"
    /\ exit_code' = <<0>>
    /\ UNCHANGED <<FRONTEND_PORT, BACKEND_PORT, WEBSOCKET_PORT, mode, args,
                   child, returncode, stdout, dumped, ret, exc, results,
                   calls, nspawn, op, again, runs, dumps, old>>

\* the user invokes the script again: a fresh process, the same file
Rerun ==
    /\ mode = "main" /\ pc = "exited"
    /\ runs < MaxRuns
    /\ runs' = runs + 1
    /\ args' \in SUBSET Flags
    /\ pc' = "main"
    /\ child' = "none"
    /\ returncode' = 0
    /\ stdout' = <<>>
    /\ dumped' = <<>>
    /\ ret' = <<>>
    /\ exc' = ""
    /\ exit_code' = <<>>
    /\ calls' = 0
    /\ nspawn' = 0
    /\ op' = ""
    /\ again' = FALSE
    /\ UNCHANGED <<FRONTEND_PORT, BACKEND_PORT, WEBSOCKET_PORT, mode, results,
                   dumps, old>>

-----------------------------------------------------------------------------

Next ==
    \/ Call_get_project_info
    \/ Call_get_runtime_config
    \/ Call_get_dependencies
    \/ Call_get_api_config
    \/ Call_get_env_config
    \/ Call_install
    \/ InstallSpawn
    \/ InstallSpawnError
    \/ \E s \in ExitStatuses : ChildExit(s)
    \/ InstallSuccess
    \/ InstallFailure
    \/ MainGetConfig
    \/ MainInstall
    \/ MainInfo
    \/ MainHelp
    \/ MainExit
    \/ Rerun

Spec == Init /\ [][Next]_vars

\* the interpreter keeps running the code of install() once wait() has returned;
\* nothing obliges the child process to terminate
FairSpec == Spec /\ WF_vars(InstallSuccess) /\ WF_vars(InstallFailure)

-----------------------------------------------------------------------------
(* The port constants edited between uses of the facade *)

InitPorts ==
    /\ FRONTEND_PORT \in PortSet
    /\ BACKEND_PORT \in PortSet
    /\ WEBSOCKET_PORT \in PortSet
    /\ mode = "import"
    /\ args = {}
    /\ InitProcess
    /\ runs = 0
    /\ dumps = {}
    /\ old = <<>>

\* lines 11-13 are rewritten and the module is loaded again
EditPorts(f, b, w) ==
    /\ mode = "import" /\ pc = "idle"
    /\ <<f, b, w>> # ports
    /\ FRONTEND_PORT' = f
    /\ BACKEND_PORT' = b
    /\ WEBSOCKET_PORT' = w
    /\ old' = <<[FRONTEND_PORT |-> FRONTEND_PORT, BACKEND_PORT |-> BACKEND_PORT,
                 WEBSOCKET_PORT |-> WEBSOCKET_PORT, views |-> AssembledConfig]>>
    /\ results' = NoResults
    /\ op' = ""
    /\ again' = FALSE
    /\ UNCHANGED <<mode, args, pc, child, returncode, stdout, dumped, ret, exc,
                   exit_code, calls, nspawn, op, again, runs, dumps>>

NextPorts ==
    \/ Call_get_project_info
    \/ Call_get_runtime_config
    \/ Call_get_dependencies
    \/ Call_get_api_config
    \/ Call_get_env_config
    \/ \E f \in PortSet, b \in PortSet, w \in PortSet : EditPorts(f, b, w)

SpecPorts == InitPorts /\ [][NextPorts]_vars

-----------------------------------------------------------------------------
(* What the printed lines show *)

LastLine == IF stdout = <<>> THEN "" ELSE stdout[Len(stdout)]

\* index of the banner of the install() call entered last, 0 when none
LastBanner ==
    LET at == {i \in DOMAIN stdout : stdout[i] = BannerLine}
    IN  IF at = {} THEN 0 ELSE CHOOSE i \in at : \A j \in at : j <= i

\* outcome lines printed by the install() call entered last
ReportsInCall == Cardinality({i \in DOMAIN stdout : i > LastBanner})

Branches == {"get_config", "install", "info", "help"}

Marker(b) ==
    CASE b = "get_config" -> JsonLine
      [] b = "install" -> BannerLine
      [] b = "info" -> "project: Manosaba AI (manosaba_ai)"
      [] b = "help" -> UsageLine

Performed(b) == \E i \in DOMAIN stdout : stdout[i] = Marker(b)

NumPerformed ==
    Cardinality({i \in DOMAIN stdout : \E b \in Branches : stdout[i] = Marker(b)})

\* decimal text of the ports of PortSet, written out
PortText(p) ==
    CASE p = 80 -> "80"
      [] p = 3002 -> "3002"
      [] p = 8000 -> "8000"

-----------------------------------------------------------------------------
(* Claims *)

\* C1: install() returns True exactly when the child process exited with
\* status 0 and False when it exited with any other status; in the latter case
\* the failure line is printed and no exception leaves install().
C1_InstallResultFollowsExitStatus ==
    /\ ret # <<>> => child = "exited" /\ ret[1] = (returncode = 0)
    /\ child = "exited" /\ pc # "install_wait" => ret # <<>> /\ exc = ""
    /\ ret = <<FALSE>> =>
          /\ LastLine = "[x] install failed: " \o CalledProcessErrorText(returncode)
          /\ exc = ""
    /\ ret = <<TRUE>> => LastLine = SuccessLine

C1_Witness == ret = <<FALSE>> /\ child = "exited" /\ returncode = -1

\* C2: a child process that cannot be launched is handled inside install():
\* no exception ever leaves install() towards the caller.
C2_SpawnFailureHandledLocally == exc = ""

\* C3: the entry point performs exactly one action, the first of --get-config,
\* --install, --info that is given, and prints the usage text when none is;
\* with --get-config given install() is never invoked.
C3_FirstMatchingFlagOnly ==
    mode = "main" =>
        LET want == IF "get_config" \in args THEN "get_config"
                    ELSE IF "install" \in args THEN "install"
                    ELSE IF "info" \in args THEN "info"
                    ELSE "help"
        IN  /\ \A b \in Branches \ {want} : ~Performed(b)
            /\ pc \in {"main_end", "exited"} => Performed(want) /\ NumPerformed = 1
            /\ "get_config" \in args => calls = 0 /\ nspawn = 0 /\ child = "none"

C3_Witness ==
    /\ mode = "main" /\ pc = "exited"
    /\ args = {"get_config", "install"}
    /\ dumped # <<>>

\* C4: every path of the entry point ends the process with exit code 0.
C4_ExitCodeAlwaysZero == pc = "exited" => exit_code = <<0>>

\* C5: the getters never launch a process, never raise and leave the port
\* constants alone; a child process is launched, and an exception raised, only
\* inside a call of install(), and no operation changes the constants.
C5_OnlyInstallSpawnsOrFails ==
    [][ /\ ports' = ports
        /\ op' \in Getters =>
              /\ child' = child /\ nspawn' = nspawn
              /\ exc' = exc /\ pc' = pc /\ stdout' = stdout
        /\ (nspawn' > nspawn \/ (child' = "running" /\ child # "running")) =>
              pc = "install_run"
        /\ (exc' # exc /\ exc' # "") => pc = "install_run"
      ]_vars

C5_Witness == op \in Getters /\ again /\ ret # <<>> /\ nspawn = 1

\* C6: the api_endpoint returned by get_api_config() is "http://localhost:",
\* the decimal BACKEND_PORT and "/api/v1"; across an edit of the ports it
\* changes exactly when BACKEND_PORT changes, whatever the other two ports are.
C6_ApiEndpointFollowsBackendPort ==
    results.get_api_config # <<>> =>
        LET now == results.get_api_config[1].api_endpoint
        IN  /\ now = "http://localhost:" \o PortText(BACKEND_PORT) \o "/api/v1"
            /\ old # <<>> =>
                  ((old[1].BACKEND_PORT # BACKEND_PORT)
                      <=> (old[1].views.api.api_endpoint # now))

C6_Witness ==
    /\ results.get_api_config # <<>> /\ old # <<>>
    /\ old[1].BACKEND_PORT # BACKEND_PORT
    /\ old[1].FRONTEND_PORT = FRONTEND_PORT

\* C7: across an edit of the ports the production profile of get_env_config()
\* is the same, while in the development profile NEXT_PUBLIC_API_URL changes
\* exactly with BACKEND_PORT and NEXT_PUBLIC_WS_URL exactly with WEBSOCKET_PORT.
C7_ProductionFixedDevelopmentDerived ==
    (results.get_env_config # <<>> /\ old # <<>>) =>
        LET a == old[1].views.environment
            b == results.get_env_config[1]
        IN  /\ a.production = b.production
            /\ (a.development.NEXT_PUBLIC_API_URL # b.development.NEXT_PUBLIC_API_URL)
                  <=> (old[1].BACKEND_PORT # BACKEND_PORT)
            /\ (a.development.NEXT_PUBLIC_WS_URL # b.development.NEXT_PUBLIC_WS_URL)
                  <=> (old[1].WEBSOCKET_PORT # WEBSOCKET_PORT)

C7_Witness ==
    /\ results.get_env_config # <<>> /\ old # <<>>
    /\ old[1].BACKEND_PORT # BACKEND_PORT
    /\ old[1].WEBSOCKET_PORT # WEBSOCKET_PORT

\* C8: a getter called again returns what it returned before, whatever getter
\* or install() calls came in between, and every --get-config invocation dumps
\* the same structure.
C8_GettersRepeatable ==
    [][ /\ \A g \in Getters : results[g] # <<>> => results'[g] = results[g]
        /\ Cardinality(dumps') <= 1
      ]_vars

C8_Witness == again /\ op = "get_api_config" /\ ret # <<>> /\ calls = MaxCalls

C10_InstallBlocksUntilChildExits ==
    /\ [](child = "running" => pc = "install_wait")
    /\ []((calls >= 1 /\ ReportsInCall >= 1) => child = "exited")
    /\ [](LastLine = SuccessLine => child = "exited" /\ returncode = 0)
    /\ ((pc = "install_wait" /\ child = "exited") ~> (ret # <<>>))

C10_Witness == ret = <<TRUE>> /\ child = "exited" /\ returncode = 0

====
